---- MODULE Spec2Model ----
(***************************************************************************)
(* Model of the blinkstickgo package (src/blinkstick.go): one BlinkStick   *)
(* handle, its cached LED count and Inverse flag, and the USB control      *)
(* transfers every exported method issues through gousb.Device.Control.    *)
(*                                                                         *)
(* A method call is one action.  `last` records the most recent call: its  *)
(* arguments, what it returned and the control transfers it issued, in     *)
(* order, each with the outcome the transport reported.                    *)
(***************************************************************************)
EXTENDS Integers, Sequences, FiniteSets, TLC

VARIABLES
    ledCount,    \* BlinkStick.ledCount, 0 when not cached
    Inverse,     \* BlinkStick.Inverse
    pc,          \* "running", or "aborted" after a run-time panic
    last,        \* record of the most recent call
    devLED0,     \* device: colour of the first LED as last written
    sent,        \* history: colour asked of the latest successful
                 \* SetRGB(0, 0, ...) under Inverse = FALSE when no other
                 \* LED write was attempted since, else <<>>
    firstCount,  \* history: count reported by the first successful
                 \* LED-count transfer, NoCount before it
    requeried    \* history: an LED-count transfer was issued after that one

vars == <<ledCount, Inverse, pc, last, devLED0, sent, firstCount, requeried>>

----------------------------------------------------------------------------
(* Bounds and input sets *)

\* largest byte count the bucket table is evaluated on directly
MaxByteCount == 200

NoCount == 0 - 1

\* LED counts a device reports in the second response byte
DeviceCounts == {0, 9, 64, 65, 255}

\* counts asked of GetLEDData
GetCounts == {0, 1, 8, 9, 16, 17, 32, 33, 64, 65}

\* lengths of the data handed to SetLEDData
DataLens == {0, 3, 24, 25, 48, 49, 96, 97, 192, 193}

Colours == { <<255, 255, 255>>, <<1, 2, 3>> }

Channels == {0, 1}

Indices == {0, 1}

\* values of rand.Uint32(), each as <<high 16 bits, low 16 bits>>
RandValues == { <<258, 772>>, <<65535, 65535>> }

\* device names and info strings, as bytes
Names == { <<>>, <<66, 83>> }

NoErr == "nil"

\* the error value gousb reports for a failed transfer
TransportErrors == {"LIBUSB_ERROR_IO"}

Outcomes == {NoErr} \cup TransportErrors

----------------------------------------------------------------------------
(* Helpers *)

\* make([]byte, n); no buffer of the package is longer than 2 + 64*3 bytes
ZeroRow == [i \in 1..(2 + 64 * 3) |-> 0]

Zeros(n) == SubSeq(ZeroRow, 1, n)

\* data of length n whose i-th byte is non-zero and depends on i
PatternRow == [i \in 1..256 |-> ((i - 1) % 255) + 1]

Pattern(n) == SubSeq(PatternRow, 1, n)

\* bytes.Repeat(b, count): count copies of b, built by doubling
RECURSIVE Repeat(_, _)
Repeat(b, count) ==
    IF count = 0 THEN <<>>
    ELSE IF count % 2 = 0 THEN LET h == Repeat(b, count \div 2) IN h \o h
    ELSE b \o Repeat(b, count - 1)

\* gousb.Device.Control as seen by the transport: the setup packet, the data
\* stage (for an input transfer, the buffer after the transfer), the number
\* of bytes transferred and the error reported.
Xfer(requestType, request, val, idx, data, n, e) ==
    [requestType |-> requestType, request |-> request, value |-> val,
     index |-> idx, data |-> data, n |-> n, err |-> e]

\* mutant: the transport's error is dropped on the way to the caller
control_SwallowsError(requestType, request, val, idx, data, e) ==
    [err |-> NoErr, xfer |-> Xfer(requestType, request, val, idx, data, Len(data), e)]

\* BlinkStick.control: the transfer and the error handed back to the caller
control(requestType, request, val, idx, data, e) ==
    [err |-> e, xfer |-> Xfer(requestType, request, val, idx, data, Len(data), e)]

\* mutant: the bucket limits compared with < instead of <=
getReportID_Strict(count) ==
    IF count < 8 * 3 THEN <<6, 8>>
    ELSE IF count < 16 * 3 THEN <<7, 16>>
    ELSE IF count < 32 * 3 THEN <<8, 32>>
    ELSE <<9, 64>>

\* BlinkStick.getReportID: <<reportID, maxLEDs>>
getReportID(count) ==
    IF count <= 8 * 3 THEN <<6, 8>>
    ELSE IF count <= 16 * 3 THEN <<7, 16>>
    ELSE IF count <= 32 * 3 THEN <<8, 32>>
    ELSE <<9, 64>>

----------------------------------------------------------------------------
(* Calls: what a method returns and which transfers it issues *)

\* mutant: the branch for index /= 0 or channel /= 0 addresses the LED
SetRGBCall_Indexed(inv, channel, index, rgb, e) ==
    LET c == IF inv THEN <<255 - rgb[1], 255 - rgb[2], 255 - rgb[3]>> ELSE rgb
        t == IF index = 0 /\ channel = 0
                THEN control(32, 9, 1, 0, <<0, c[1], c[2], c[3]>>, e)
                ELSE control(32, 9, 5, 0, <<5, channel, index, c[1], c[2], c[3]>>, e)
    IN  [err |-> t.err, xfers |-> <<t.xfer>>]

\* SetRGB(channel, index, r, g, b) with the transport answering e
SetRGBCall(inv, channel, index, rgb, e) ==
    LET c == IF inv THEN <<255 - rgb[1], 255 - rgb[2], 255 - rgb[3]>> ELSE rgb
        t == IF index = 0 /\ channel = 0
                THEN control(32, 9, 1, 0, <<0, c[1], c[2], c[3]>>, e)
                ELSE control(32, 9, 1, 0, <<0, c[1], c[2], c[3]>>, e)
    IN  [err |-> t.err, xfers |-> <<t.xfer>>]

\* SetRandom: byte(rColor>>24), byte(rColor>>16), byte(rColor>>8)
RandColour(rColor) ==
    <<(rColor[1] \div 256) % 256, rColor[1] % 256, (rColor[2] \div 256) % 256>>

\* the device's answers to the LED-count request: error, bytes transferred
\* and the 2-byte buffer after the transfer
CountResponses ==
    {[err |-> NoErr, n |-> 2, buf |-> <<129, c>>] : c \in DeviceCounts}
    \cup {[err |-> "LIBUSB_ERROR_IO", n |-> 0, buf |-> <<0, 0>>],
          [err |-> "LIBUSB_ERROR_IO", n |-> 2, buf |-> <<129, 9>>],
          [err |-> NoErr, n |-> 1, buf |-> <<129, 0>>]}

\* the answers the device may give to a call made with cached value lc: the
\* request is issued only when lc = 0; otherwise no answer is drawn
AnswersTo(lc) == IF lc = 0 THEN CountResponses ELSE {CHOOSE r \in CountResponses : TRUE}

\* mutant: the number of bytes transferred is not looked at
GetLEDCountCall_IgnoresLen(lc, resp) ==
    IF lc = 0
    THEN LET x == Xfer(160, 1, 129, 0, resp.buf, resp.n, resp.err) IN
         IF resp.err /= NoErr
         THEN [ledCount |-> lc, count |-> 0 - 1, xfers |-> <<x>>]
         ELSE [ledCount |-> resp.buf[2], count |-> resp.buf[2], xfers |-> <<x>>]
    ELSE [ledCount |-> lc, count |-> lc, xfers |-> <<>>]

\* GetLEDCount with cached value lc and the device answering resp
GetLEDCountCall(lc, resp) ==
    IF lc = 0
    THEN LET x == Xfer(160, 1, 129, 0, resp.buf, resp.n, resp.err) IN
         IF resp.err /= NoErr \/ resp.n < 2
         THEN [ledCount |-> lc, count |-> 0 - 1, xfers |-> <<x>>]
         ELSE [ledCount |-> resp.buf[2], count |-> resp.buf[2], xfers |-> <<x>>]
    ELSE [ledCount |-> lc, count |-> lc, xfers |-> <<>>]

\* mutant: the loop compares len(data) > i + 1 and loses the last byte
BuildReport_OffByOne(channel, data, maxLEDs) ==
    LET size == maxLEDs * 3
        most == IF Len(data) > 0 THEN Len(data) - 1 ELSE 0
        kept == IF most > size THEN size ELSE most
    IN  <<0, channel>> \o SubSeq(data, 1, kept) \o Zeros(size - kept)

\* the report built by the loop of SetLEDData: for i < maxLEDs*3 it appends
\* data[i] while len(data) > i and 0 from there on
BuildReport(channel, data, maxLEDs) ==
    LET size == maxLEDs * 3
        kept == IF Len(data) > size THEN size ELSE Len(data)
    IN  <<0, channel>> \o SubSeq(data, 1, kept) \o Zeros(size - kept)

\* SetLEDData(channel, data) with the transport answering e
SetLEDDataCall(channel, data, e) ==
    LET ids == getReportID(Len(data))
        t == control(32, 9, ids[1], 0, BuildReport(channel, data, ids[2]), e)
    IN  [err |-> t.err, xfers |-> <<t.xfer>>]

\* mutant: the triples are laid out green first
SetAllRGBCall_GRB(lc, inv, channel, rgb, resp, e) ==
    LET g == GetLEDCountCall(lc, resp)
        w == IF g.count < 0
                THEN SetRGBCall(inv, channel, 0, rgb, e)
                ELSE SetLEDDataCall(channel, Repeat(<<rgb[2], rgb[1], rgb[3]>>, g.count), e)
    IN  [ledCount |-> g.ledCount, count |-> g.count, err |-> w.err,
         xfers |-> g.xfers \o w.xfers]

\* SetAllRGB(channel, r, g, b): resp answers the LED-count request, if one
\* is issued, and e the write
SetAllRGBCall(lc, inv, channel, rgb, resp, e) ==
    LET g == GetLEDCountCall(lc, resp)
        w == IF g.count < 0
                THEN SetRGBCall(inv, channel, 0, rgb, e)
                ELSE SetLEDDataCall(channel, Repeat(rgb, g.count), e)
    IN  [ledCount |-> g.ledCount, count |-> g.count, err |-> w.err,
         xfers |-> g.xfers \o w.xfers]

\* the LED-data report the device returns: 2 header bytes, the first LED,
\* then the other LEDs
DeviceRow == [j \in 1..(64 * 3) |-> (j % 251) + 1]

DeviceReport(reportID, maxLEDs, led0) ==
    <<reportID, 0>> \o led0 \o SubSeq(DeviceRow, 1, maxLEDs * 3 - 3)

\* mutant: the slice starts one byte early
Slice_OneEarly(buffer, low, high) ==
    IF low <= high /\ high <= Len(buffer)
    THEN [panic |-> FALSE, bytes |-> SubSeq(buffer, low, high - 1)]
    ELSE [panic |-> TRUE, bytes |-> <<>>]

\* buffer[low:high] of Go: the bytes low .. high-1, or a run-time panic
\* when high exceeds the capacity
Slice(buffer, low, high) ==
    IF low <= high /\ high <= Len(buffer)
    THEN [panic |-> FALSE, bytes |-> SubSeq(buffer, low + 1, high)]
    ELSE [panic |-> TRUE, bytes |-> <<>>]

\* GetLEDData(count) with the transport answering e and the device's first
\* LED being led0
GetLEDDataCall(count, led0, e) ==
    LET ids == getReportID(count * 3)
        size == 2 + ids[2] * 3
        buffer == IF e = NoErr THEN DeviceReport(ids[1], ids[2], led0)
                               ELSE Zeros(size)
        t == control(160, 1, ids[1], 0, buffer, e)
        s == Slice(buffer, 2, 2 + count * 3)
    IN  [err |-> IF s.panic THEN "panic" ELSE t.err, bytes |-> s.bytes,
         xfers |-> <<t.xfer>>]

\* the 33-byte buffer after a name or info request
NameBuffer(name) == name \o Zeros(33 - Len(name))

\* GetName (val = 2) and GetInfo (val = 3)
GetStringCall(val, name, e) ==
    LET buffer == IF e = NoErr THEN NameBuffer(name) ELSE Zeros(33)
        t == control(160, 1, val, 0, buffer, e)
    IN  [bytes |-> IF t.err /= NoErr THEN <<>> ELSE Append(buffer, 0),
         xfers |-> <<t.xfer>>]

\* SetName (val = 2) and SetInfo (val = 3)
SetStringCall(val, name, e) ==
    LET t == control(32, 9, val, 0, name, e)
    IN  [err |-> t.err, xfers |-> <<t.xfer>>]

----------------------------------------------------------------------------
(* State machine *)

NoCall == [op |-> "none", args |-> <<>>, err |-> NoErr, count |-> NoCount,
           bytes |-> <<>>, xfers |-> <<>>]

Call(op, args, err, count, bytes, xfers) ==
    [op |-> op, args |-> args, err |-> err, count |-> count,
     bytes |-> bytes, xfers |-> xfers]

Init ==
    /\ ledCount = 0
    /\ Inverse = FALSE
    /\ pc = "running"
    /\ last = NoCall
    /\ devLED0 = <<0, 0, 0>>
    /\ sent = <<>>
    /\ firstCount = NoCount
    /\ requeried = FALSE

\* the caller assigns the exported field Inverse
SetInverse ==
    \E b \in BOOLEAN :
        /\ pc = "running"
        /\ b /= Inverse
        /\ Inverse' = b
        /\ last' = Call("SetInverse", [inverse |-> b], NoErr, NoCount, <<>>, <<>>)
        /\ UNCHANGED <<ledCount, pc, devLED0, sent, firstCount, requeried>>

SetRGB ==
    \E channel \in Channels, index \in Indices, rgb \in Colours, e \in Outcomes :
        LET r == SetRGBCall(Inverse, channel, index, rgb, e) IN
        /\ pc = "running"
        /\ last' = Call("SetRGB", [channel |-> channel, index |-> index, rgb |-> rgb],
                        r.err, NoCount, <<>>, r.xfers)
        /\ devLED0' = IF e = NoErr THEN SubSeq(r.xfers[1].data, 2, 4) ELSE devLED0
        /\ sent' = IF e = NoErr /\ ~Inverse /\ channel = 0 /\ index = 0
                      THEN rgb ELSE <<>>
        /\ UNCHANGED <<ledCount, Inverse, pc, firstCount, requeried>>

SetRandom ==
    \E channel \in Channels, index \in Indices, rColor \in RandValues,
       e \in Outcomes :
        LET rgb == RandColour(rColor)
            r == SetRGBCall(Inverse, channel, index, rgb, e) IN
        /\ pc = "running"
        /\ last' = Call("SetRandom", [channel |-> channel, index |-> index, rgb |-> rgb],
                        r.err, NoCount, <<>>, r.xfers)
        /\ devLED0' = IF e = NoErr THEN SubSeq(r.xfers[1].data, 2, 4) ELSE devLED0
        /\ sent' = IF e = NoErr /\ ~Inverse /\ channel = 0 /\ index = 0
                      THEN rgb ELSE <<>>
        /\ UNCHANGED <<ledCount, Inverse, pc, firstCount, requeried>>

\* history of the LED-count transfers among xfers
CountHistory(xfers) ==
    LET cx == SelectSeq(xfers, LAMBDA x : x.value = 129)
        ok == Len(cx) > 0 /\ cx[1].err = NoErr /\ cx[1].n >= 2
    IN  /\ firstCount' = IF firstCount = NoCount /\ ok THEN cx[1].data[2]
                                                      ELSE firstCount
        /\ requeried' = (requeried \/ (firstCount /= NoCount /\ Len(cx) > 0))

GetLEDCount ==
    \E resp \in AnswersTo(ledCount) :
        LET r == GetLEDCountCall(ledCount, resp) IN
        /\ pc = "running"
        /\ ledCount' = r.ledCount
        /\ last' = Call("GetLEDCount", <<>>, NoErr, r.count, <<>>, r.xfers)
        /\ CountHistory(r.xfers)
        /\ UNCHANGED <<Inverse, pc, devLED0, sent>>

SetAllRGB ==
    \E channel \in Channels, rgb \in Colours, resp \in AnswersTo(ledCount),
       e \in Outcomes :
        LET r == SetAllRGBCall(ledCount, Inverse, channel, rgb, resp, e)
            w == r.xfers[Len(r.xfers)] IN
        /\ pc = "running"
        /\ ledCount' = r.ledCount
        /\ last' = Call("SetAllRGB", [channel |-> channel, rgb |-> rgb],
                        r.err, r.count, <<>>, r.xfers)
        /\ CountHistory(r.xfers)
        /\ devLED0' = IF e /= NoErr THEN devLED0
                      ELSE IF r.count < 0 THEN SubSeq(w.data, 2, 4)
                      ELSE SubSeq(w.data, 3, 5)
        /\ sent' = <<>>
        /\ UNCHANGED <<Inverse, pc>>

SetLEDData ==
    \E channel \in Channels, n \in DataLens, e \in Outcomes :
        LET data == Pattern(n)
            r == SetLEDDataCall(channel, data, e) IN
        /\ pc = "running"
        /\ last' = Call("SetLEDData", [channel |-> channel, data |-> data],
                        r.err, NoCount, <<>>, r.xfers)
        /\ devLED0' = IF e = NoErr THEN SubSeq(r.xfers[1].data, 3, 5) ELSE devLED0
        /\ sent' = <<>>
        /\ UNCHANGED <<ledCount, Inverse, pc, firstCount, requeried>>

GetLEDData ==
    \E count \in GetCounts, e \in Outcomes :
        LET r == GetLEDDataCall(count, devLED0, e) IN
        /\ pc = "running"
        /\ last' = Call("GetLEDData", [count |-> count],
                        r.err, NoCount, r.bytes, r.xfers)
        /\ pc' = IF r.err = "panic" THEN "aborted" ELSE pc
        /\ UNCHANGED <<ledCount, Inverse, devLED0, sent, firstCount, requeried>>

GetName ==
    \E name \in Names, e \in Outcomes :
        LET r == GetStringCall(2, name, e) IN
        /\ pc = "running"
        /\ last' = Call("GetName", <<>>, NoErr, NoCount, r.bytes, r.xfers)
        /\ UNCHANGED <<ledCount, Inverse, pc, devLED0, sent, firstCount, requeried>>

GetInfo ==
    \E info \in Names, e \in Outcomes :
        LET r == GetStringCall(3, info, e) IN
        /\ pc = "running"
        /\ last' = Call("GetInfo", <<>>, NoErr, NoCount, r.bytes, r.xfers)
        /\ UNCHANGED <<ledCount, Inverse, pc, devLED0, sent, firstCount, requeried>>

SetName ==
    \E name \in Names, e \in Outcomes :
        LET r == SetStringCall(2, name, e) IN
        /\ pc = "running"
        /\ last' = Call("SetName", [name |-> name], r.err, NoCount, <<>>, r.xfers)
        /\ UNCHANGED <<ledCount, Inverse, pc, devLED0, sent, firstCount, requeried>>

SetInfo ==
    \E info \in Names, e \in Outcomes :
        LET r == SetStringCall(3, info, e) IN
        /\ pc = "running"
        /\ last' = Call("SetInfo", [info |-> info], r.err, NoCount, <<>>, r.xfers)
        /\ UNCHANGED <<ledCount, Inverse, pc, devLED0, sent, firstCount, requeried>>

Next ==
    \/ SetInverse
    \/ GetLEDCount
    \/ GetName
    \/ GetInfo
    \/ SetName
    \/ SetInfo
    \/ SetRGB
    \/ SetRandom
    \/ SetAllRGB
    \/ GetLEDData
    \/ SetLEDData

Spec == Init /\ [][Next]_vars

----------------------------------------------------------------------------
(* Properties *)

\* the transfer that carries the colours of the most recent call
Write == last.xfers[Len(last.xfers)]

\* the bucket table of the specification: report id and capacity per byte count
Bucket(c) ==
    IF c <= 24 THEN [reportID |-> 6, maxLEDs |-> 8]
    ELSE IF c <= 48 THEN [reportID |-> 7, maxLEDs |-> 16]
    ELSE IF c <= 96 THEN [reportID |-> 8, maxLEDs |-> 32]
    ELSE [reportID |-> 9, maxLEDs |-> 64]

AtMost(a, b) == IF a < b THEN a ELSE b

\* the colour the device is sent for rgb when Inverse is set
Complement(rgb) == <<255 - rgb[1], 255 - rgb[2], 255 - rgb[3]>>

IsSetup(x, requestType, request, val) ==
    x.requestType = requestType /\ x.request = request /\ x.value = val /\ x.index = 0

Failed(x) == x.err /= NoErr

\* C1: once an LED-count transfer has succeeded and reported N, for any N in
\* 0..255, no LED-count transfer is issued again and every GetLEDCount call
\* returns N.
C1_CountCachedForEveryN ==
    firstCount /= NoCount =>
        /\ ~requeried
        /\ last.op = "GetLEDCount" => last.count = firstCount

\* C2: with Inverse set, every RGB triple sent is the complement of the triple
\* asked for: by SetRGB and SetRandom, and in the LED data of SetLEDData and
\* of SetAllRGB on a device that reports a count.
C2_InverseComplementsEveryTriple ==
    Inverse =>
        /\ last.op \in {"SetRGB", "SetRandom"} =>
               Write.data = <<0>> \o Complement(last.args.rgb)
        /\ last.op = "SetLEDData" =>
               \A i \in 1..AtMost(Len(last.args.data), Len(Write.data) - 2) :
                   Write.data[2 + i] = 255 - last.args.data[i]
        /\ (last.op = "SetAllRGB" /\ last.count >= 0) =>
               \A i \in 1..AtMost(3 * last.count, Len(Write.data) - 2) :
                   Write.data[2 + i] = 255 - last.args.rgb[((i - 1) % 3) + 1]

\* C3: SetRGB issues exactly one output transfer (0x20, 0x09, value 1,
\* index 0) with payload [0, r', g', b'], the colour complemented exactly when
\* Inverse is set, whatever channel and index are; with Inverse set, white is
\* sent as [0, 0, 0, 0].
C3_SetRGBTransfer ==
    last.op = "SetRGB" =>
        LET c == IF Inverse THEN Complement(last.args.rgb) ELSE last.args.rgb IN
        /\ Len(last.xfers) = 1
        /\ IsSetup(last.xfers[1], 32, 9, 1)
        /\ last.xfers[1].data = <<0, c[1], c[2], c[3]>>
        /\ (Inverse /\ last.args.rgb = <<255, 255, 255>>) =>
               last.xfers[1].data = <<0, 0, 0, 0>>

C3_Witness ==
    /\ last.op = "SetRGB"
    /\ Inverse
    /\ last.args.channel = 1
    /\ last.args.index = 1
    /\ last.args.rgb = <<255, 255, 255>>
    /\ last.xfers[1].data = <<0, 0, 0, 0>>

\* the LED bytes of the most recent write are n triples rgb, then zeros
CarriesTriples(n, rgb) ==
    /\ Len(Write.data) >= 2 + 3 * n
    /\ \A i \in 1..(3 * n) : Write.data[2 + i] = rgb[((i - 1) % 3) + 1]
    /\ \A i \in (3 * n + 1)..(Len(Write.data) - 2) : Write.data[2 + i] = 0

\* C4 as stated: SetAllRGB on a device whose count is N, for every N in
\* 0..255, sends exactly N triples (r, g, b) and no other non-zero LED byte.
C4_AllTriplesSent ==
    (last.op = "SetAllRGB" /\ last.count >= 0) =>
        CarriesTriples(last.count, last.args.rgb)

\* C4 as amended: SetAllRGB on a device whose count is N sends exactly
\* min(N, 64) triples (r, g, b) and no other non-zero LED byte: all N triples
\* for N <= 64, and only the first 64, in the 64-LED report, for N > 64.
C4_TriplesUpToCapacity ==
    (last.op = "SetAllRGB" /\ last.count >= 0) =>
        /\ CarriesTriples(AtMost(last.count, 64), last.args.rgb)
        /\ last.count > 64 => Len(Write.data) = 2 + 64 * 3

C4_Witness ==
    /\ last.op = "SetAllRGB"
    /\ last.count = 65
    /\ last.args.rgb = <<1, 2, 3>>
    /\ Len(Write.data) = 194
    /\ SubSeq(Write.data, 192, 194) = <<1, 2, 3>>

\* the most recent call is SetLEDData and issued one output transfer with the
\* report id of the bucket of len(data) and a payload of 2 + maxLEDs*3 bytes
\* that starts with [0, channel]
SetLEDDataFrame ==
    LET b == Bucket(Len(last.args.data)) IN
    /\ Len(last.xfers) = 1
    /\ IsSetup(Write, 32, 9, b.reportID)
    /\ Len(Write.data) = 2 + b.maxLEDs * 3
    /\ SubSeq(Write.data, 1, 2) = <<0, last.args.channel>>

\* C5 as stated: the payload of SetLEDData is [0, channel], then all bytes of
\* data in order, then zeros up to maxLEDs*3 data bytes, for every data.
C5_ReportCarriesAllData ==
    last.op = "SetLEDData" =>
        LET n == Len(last.args.data) IN
        /\ SetLEDDataFrame
        /\ n <= Len(Write.data) - 2
        /\ SubSeq(Write.data, 3, 2 + n) = last.args.data
        /\ \A i \in (n + 1)..(Len(Write.data) - 2) : Write.data[2 + i] = 0

\* C5 as amended: the payload of SetLEDData is [0, channel], then the first
\* min(len(data), maxLEDs*3) bytes of data in order, then zeros up to
\* maxLEDs*3 data bytes: all of data when len(data) <= 192, and only its
\* first 192 bytes when it is longer.
C5_ReportCarriesDataUpToCapacity ==
    last.op = "SetLEDData" =>
        LET n == AtMost(Len(last.args.data), 64 * 3) IN
        /\ SetLEDDataFrame
        /\ n <= Len(Write.data) - 2
        /\ SubSeq(Write.data, 3, 2 + n) = SubSeq(last.args.data, 1, n)
        /\ \A i \in (n + 1)..(Len(Write.data) - 2) : Write.data[2 + i] = 0

C5_Witness ==
    /\ last.op = "SetLEDData"
    /\ Len(last.args.data) = 25
    /\ last.args.channel = 1
    /\ Len(Write.data) = 50
    /\ Write.data[27] = 25
    /\ Write.data[28] = 0

\* C6: getReportID(c) is (6, 8) for c <= 24, (7, 16) for 25..48, (8, 32) for
\* 49..96 and (9, 64) above, a function of c alone; GetLEDData selects the
\* bucket of count*3 and SetLEDData that of len(data).
C6_BucketSelection ==
    /\ \A c \in 0..MaxByteCount :
           getReportID(c) = <<Bucket(c).reportID, Bucket(c).maxLEDs>>
    /\ last.op = "GetLEDData" =>
           LET b == Bucket(last.args.count * 3) IN
           /\ last.xfers[1].value = b.reportID
           /\ Len(last.xfers[1].data) = 2 + b.maxLEDs * 3
    /\ last.op = "SetLEDData" =>
           LET b == Bucket(Len(last.args.data)) IN
           /\ last.xfers[1].value = b.reportID
           /\ Len(last.xfers[1].data) = 2 + b.maxLEDs * 3

C6_Witness ==
    /\ last.op = "SetLEDData"
    /\ Len(last.args.data) = 24
    /\ last.xfers[1].value = 6
    /\ Len(last.xfers[1].data) = 26

\* C7: GetLEDData(count) issues one input transfer (0xA0, 0x01, report id of
\* the bucket of count*3, index 0) into 2 + maxLEDs*3 bytes; for count <= 64
\* it returns the count*3 bytes at offsets 2 .. 2+count*3-1, and for
\* count > 64 it returns a failure to its caller instead of aborting.
C7_GetLEDDataFailsCleanly ==
    last.op = "GetLEDData" =>
        LET b == Bucket(last.args.count * 3) IN
        /\ Len(last.xfers) = 1
        /\ IsSetup(last.xfers[1], 160, 1, b.reportID)
        /\ Len(last.xfers[1].data) = 2 + b.maxLEDs * 3
        /\ last.args.count <= 64 =>
               last.bytes = SubSeq(last.xfers[1].data, 3, 2 + last.args.count * 3)
        /\ last.args.count > 64 => last.err \in TransportErrors

ReturnsError == {"SetName", "SetInfo", "SetRGB", "SetRandom", "SetAllRGB",
                 "SetLEDData", "GetLEDData"}

\* C8 as stated: when a transfer of a call fails, the call does not report
\* success: a method with an error result returns the transport's error,
\* GetLEDCount returns -1, GetName and GetInfo return the empty string.  (A
\* call that aborts reports no success; C7 is about it.)
C8_NoSuccessAfterFailure ==
    \A i \in 1..Len(last.xfers) :
        Failed(last.xfers[i]) =>
            /\ last.op \in ReturnsError =>
                   /\ last.err /= NoErr
                   /\ last.err /= "panic" => last.err = last.xfers[i].err
            /\ last.op = "GetLEDCount" => last.count = 0 - 1
            /\ last.op \in {"GetName", "GetInfo"} => last.bytes = <<>>

\* C8 as amended: every method with an error result returns the error of the
\* last transfer it issued: SetName, SetInfo, SetRGB, SetRandom, SetLEDData
\* and GetLEDData (for count <= 64; it aborts for count > 64) issue one
\* transfer and return its error unmodified; SetAllRGB returns the error of
\* its write, and a failed LED-count transfer is not reported: SetAllRGB then
\* takes the count as -1 and writes with SetRGB's transfer, reporting success
\* when that write succeeds.  GetLEDCount returns -1 when its transfer fails;
\* GetName and GetInfo return the empty string when theirs fails.
C8_LastTransferDecides ==
    /\ last.op \in {"SetName", "SetInfo", "SetRGB", "SetRandom", "SetLEDData"} =>
           /\ Len(last.xfers) = 1
           /\ last.err = last.xfers[1].err
    /\ last.op = "GetLEDData" =>
           /\ Len(last.xfers) = 1
           /\ last.err = IF last.args.count <= 64 THEN last.xfers[1].err ELSE "panic"
    /\ last.op = "SetAllRGB" =>
           /\ last.err = Write.err
           /\ (Len(last.xfers) = 2 /\ (Failed(last.xfers[1]) \/ last.xfers[1].n < 2)) =>
                  /\ last.count = 0 - 1
                  /\ IsSetup(Write, 32, 9, 1)
    /\ (last.op = "GetLEDCount" /\ Len(last.xfers) = 1 /\ Failed(last.xfers[1])) =>
           last.count = 0 - 1
    /\ (last.op \in {"GetName", "GetInfo"} /\ Failed(last.xfers[1])) =>
           last.bytes = <<>>

C8_Witness ==
    /\ last.op = "SetAllRGB"
    /\ Len(last.xfers) = 2
    /\ Failed(last.xfers[1])
    /\ ~Failed(last.xfers[2])
    /\ last.err = NoErr

\* C9: with Inverse off, after a successful SetRGB(0, 0, r, g, b) and no other
\* LED write, GetLEDData(1) returns exactly 3 bytes, and when its transfer
\* succeeds they are r, g, b as the device stored them (each >= 252 after
\* white was sent).
C9_RoundTrip ==
    (last.op = "GetLEDData" /\ last.args.count = 1 /\ sent /= <<>>) =>
        /\ Len(last.bytes) = 3
        /\ last.err = NoErr =>
               /\ last.bytes = sent
               /\ sent = <<255, 255, 255>> => \A i \in 1..3 : last.bytes[i] >= 252

C9_Witness ==
    /\ last.op = "GetLEDData"
    /\ last.args.count = 1
    /\ sent = <<255, 255, 255>>
    /\ last.err = NoErr
    /\ last.bytes = <<255, 255, 255>>

\* C10: a GetLEDCount whose transfer errors or returns fewer than 2 bytes
\* returns -1 after that one transfer and leaves the cache unset; -1 is never
\* cached; while no LED-count transfer has succeeded, every GetLEDCount and
\* every SetAllRGB call issues the LED-count transfer, once.
C10_FailedCountNotCached ==
    /\ ledCount >= 0
    /\ (last.op = "GetLEDCount" /\ Len(last.xfers) > 0
            /\ (Failed(last.xfers[1]) \/ last.xfers[1].n < 2)) =>
           /\ last.count = 0 - 1
           /\ Len(last.xfers) = 1
           /\ ledCount = 0
    /\ (firstCount = NoCount /\ last.op \in {"GetLEDCount", "SetAllRGB"}) =>
           /\ ledCount = 0
           /\ last.count = 0 - 1
           /\ IsSetup(last.xfers[1], 160, 1, 129)
           /\ Len(SelectSeq(last.xfers, LAMBDA x : x.value = 129)) = 1

C10_Witness ==
    /\ last.op = "SetAllRGB"
    /\ firstCount = NoCount
    /\ ledCount = 0
    /\ last.count = 0 - 1
    /\ Len(last.xfers) = 2
    /\ last.xfers[1].n = 1

====
